---- MODULE Spec2Model ----
(***************************************************************************)
(* Model of utils.py of the personal expense assistant backend:            *)
(*   - the image artifact cache (store_uploaded_image_as_artifact,         *)
(*     download_image_from_gcs, format_user_request_to_adk_content_and_    *)
(*     store_artifacts) over the external artifact service                 *)
(*     (list_versions / save_artifact / load_artifact);                    *)
(*   - the response post-processing (sanitize_image_id,                    *)
(*     extract_attachment_ids_and_sanitize_response,                       *)
(*     extract_thinking_process).                                          *)
(*                                                                         *)
(* Strings are sequences of characters.  Byte strings are sequences of     *)
(* integers 0..255.  A literal word that the code only ever matches as a   *)
(* whole ("THINKING PROCESS", "attachments", "IMAGE-", ...) is one         *)
(* character of the alphabet.                                              *)
(***************************************************************************)
EXTENDS Integers, Sequences, FiniteSets, TLC

VARIABLES
    store,    \* artifact service: key -> sequence of saved versions
    log,      \* history: per key, MIME type of the first upload, later differing re-upload seen
    last,     \* the most recent completed call and what it returned
    pc,       \* concurrent uploads: position of each caller
    call,     \* concurrent uploads: arguments of each caller
    obs,      \* concurrent uploads: what list_versions returned to each caller
    text,     \* post-processing: the response text handed to the function
    out       \* post-processing: what the function returned

vars == <<store, log, last, pc, call, obs, text, out>>

----------------------------------------------------------------------------
(* Bounds and input sets *)

\* number of files a ChatRequest carries at most
MaxFiles == 2

\* the (app_name, user_id, session_id) scopes calls are made in
Scopes == { <<"expense_app", "u1", "s1">>, <<"expense_app", "u2", "s2">> }

\* uploaded image contents (bytes)
Images == { <<1, 2>>, <<255, 254, 253>> }

MimeTypes == { "image/png", "image/jpeg" }

\* request.text values: empty, or some text
RequestTexts == { <<>>, <<"h", "i">> }

\* what the artifact service may do on a load_artifact call
LoadFaults == { "none", "raise", "no_inline_data" }

Callers == { 1, 2 }

----------------------------------------------------------------------------
(* base64 and hashlib *)

B64Chars ==
    <<"A", "B", "C", "D", "E", "F", "G", "H", "I", "J", "K", "L", "M", "N", "O", "P",
      "Q", "R", "S", "T", "U", "V", "W", "X", "Y", "Z", "a", "b", "c", "d", "e", "f",
      "g", "h", "i", "j", "k", "l", "m", "n", "o", "p", "q", "r", "s", "t", "u", "v",
      "w", "x", "y", "z", "0", "1", "2", "3", "4", "5", "6", "7", "8", "9", "+", "/">>

B64Char(n) == B64Chars[n + 1]

B64Index(c) == (CHOOSE i \in 1..64 : B64Chars[i] = c) - 1

RECURSIVE b64encode(_)
\* base64.b64encode(b).decode("utf-8"): three bytes make four characters, "=" pads
b64encode(b) ==
    IF Len(b) = 0 THEN <<>>
    ELSE IF Len(b) = 1 THEN
        << B64Char(b[1] \div 4), B64Char((b[1] % 4) * 16), "=", "=" >>
    ELSE IF Len(b) = 2 THEN
        << B64Char(b[1] \div 4),
           B64Char((b[1] % 4) * 16 + (b[2] \div 16)),
           B64Char((b[2] % 16) * 4), "=" >>
    ELSE
        << B64Char(b[1] \div 4),
           B64Char((b[1] % 4) * 16 + (b[2] \div 16)),
           B64Char((b[2] % 16) * 4 + (b[3] \div 64)),
           B64Char(b[3] % 64) >> \o b64encode(SubSeq(b, 4, Len(b)))

RECURSIVE b64decode(_)
\* base64.b64decode(s) of a padded base64 string: four characters make up to three bytes
b64decode(s) ==
    IF Len(s) < 4 THEN <<>>
    ELSE
        LET i1 == B64Index(s[1])
            i2 == B64Index(s[2])
            rest == SubSeq(s, 5, Len(s))
        IN  IF s[3] = "=" THEN << i1 * 4 + (i2 \div 16) >>
            ELSE LET i3 == B64Index(s[3])
                 IN  IF s[4] = "=" THEN
                         << i1 * 4 + (i2 \div 16), (i2 % 16) * 16 + (i3 \div 4) >>
                     ELSE
                         << i1 * 4 + (i2 \div 16), (i2 % 16) * 16 + (i3 \div 4),
                            (i3 % 4) * 64 + B64Index(s[4]) >> \o b64decode(rest)

\* hashlib.sha256(b).hexdigest() of the images of the model (the real digests)
sha256_hexdigest(b) ==
    CASE b = <<1, 2>> ->
           <<"a", "1", "2", "8", "7", "1", "f", "e", "e", "2", "1", "0", "f", "b", "8", "6",
             "1", "9", "2", "9", "1", "e", "a", "e", "a", "1", "9", "4", "5", "8", "1", "c",
             "b", "d", "2", "5", "3", "1", "e", "4", "b", "2", "3", "7", "5", "9", "d", "2",
             "2", "5", "f", "6", "8", "0", "6", "9", "2", "3", "f", "6", "3", "2", "2", "2">>
      [] b = <<255, 254, 253>> ->
           <<"8", "c", "a", "9", "f", "8", "c", "2", "6", "9", "c", "0", "a", "4", "b", "1",
             "d", "8", "b", "f", "0", "e", "f", "c", "6", "7", "d", "9", "7", "d", "f", "8",
             "a", "d", "5", "e", "0", "e", "a", "9", "3", "6", "3", "0", "f", "d", "9", "0",
             "9", "9", "8", "6", "0", "d", "3", "6", "c", "0", "f", "e", "7", "5", "e", "a">>

\* hexdigest()[:12]
HashIdLen == 12

image_hash_id(image_byte) == SubSeq(sha256_hexdigest(image_byte), 1, HashIdLen)

\* schema.ImageData: serialized_image (base64 text) and mime_type
ImageData == { [serialized_image |-> b64encode(b), mime_type |-> m] :
                   b \in Images, m \in MimeTypes }

HashIds == { image_hash_id(b) : b \in Images }

\* (app_name, user_id, session_id, filename)
Keys == Scopes \X HashIds

----------------------------------------------------------------------------
(* The artifact service (external): versions of a key are kept in the order saved *)

\* list_versions: the version numbers saved under the key
list_versions(st, k) == [i \in 1..Len(st[k]) |-> i - 1]

\* save_artifact: adds a new version under the key
save_artifact(st, k, artifact) == [st EXCEPT ![k] = Append(@, artifact)]

\* types.Part(inline_data=types.Blob(mime_type=..., data=...))
InlinePart(mime, data) == [kind |-> "inline_data", mime_type |-> mime, data |-> data]

\* types.Part(text=...)
TextPart(t) == [kind |-> "text", text |-> t]

NoArtifact == [kind |-> "None"]

\* load_artifact: the latest version under the key, None when there is none
load_artifact(st, k) == IF Len(st[k]) = 0 THEN NoArtifact ELSE st[k][Len(st[k])]

----------------------------------------------------------------------------
(* store_uploaded_image_as_artifact *)

\* variant: saves without looking at list_versions
store_always_saves(st, scope, image_data) ==
    LET image_byte == b64decode(image_data.serialized_image)
        hash == image_hash_id(image_byte)
        k == <<scope, hash>>
    IN  [ store |-> save_artifact(st, k, InlinePart(image_data.mime_type, image_byte)),
          saved |-> TRUE,
          result |-> <<hash, image_byte>> ]

\* variant: looks for the hash in every scope, not only the caller's
store_dedups_across_scopes(st, scope, image_data) ==
    LET image_byte == b64decode(image_data.serialized_image)
        hash == image_hash_id(image_byte)
        k == <<scope, hash>>
    IN  IF \E s \in Scopes : Len(list_versions(st, <<s, hash>>)) > 0
        THEN [store |-> st, saved |-> FALSE, result |-> <<hash, image_byte>>]
        ELSE [ store |-> save_artifact(st, k, InlinePart(image_data.mime_type, image_byte)),
               saved |-> TRUE,
               result |-> <<hash, image_byte>> ]

\* variant: a re-upload saves again when its MIME type differs from the stored one
store_resaves_on_new_mime(st, scope, image_data) ==
    LET image_byte == b64decode(image_data.serialized_image)
        hash == image_hash_id(image_byte)
        k == <<scope, hash>>
    IN  IF Len(list_versions(st, k)) > 0
           /\ load_artifact(st, k).mime_type = image_data.mime_type
        THEN [store |-> st, saved |-> FALSE, result |-> <<hash, image_byte>>]
        ELSE [ store |-> save_artifact(st, k, InlinePart(image_data.mime_type, image_byte)),
               saved |-> TRUE,
               result |-> <<hash, image_byte>> ]

\* One whole call, nothing else running in between.
store_uploaded_image_as_artifact(st, scope, image_data) ==
    LET image_byte == b64decode(image_data.serialized_image)
        hash == image_hash_id(image_byte)
        k == <<scope, hash>>
        artifact_versions == list_versions(st, k)
    IN  IF Len(artifact_versions) > 0
        THEN [store |-> st, saved |-> FALSE, result |-> <<hash, image_byte>>]
        ELSE [ store |-> save_artifact(st, k, InlinePart(image_data.mime_type, image_byte)),
               saved |-> TRUE,
               result |-> <<hash, image_byte>> ]

\* history of the uploads of a key: the first MIME type given, and whether a
\* later upload gave another one
NoteUpload(lg, k, mime) ==
    IF lg[k].first = "none"
    THEN [lg EXCEPT ![k] = [first |-> mime, reup |-> FALSE]]
    ELSE IF lg[k].first # mime THEN [lg EXCEPT ![k].reup = TRUE] ELSE lg

----------------------------------------------------------------------------
(* download_image_from_gcs *)

\* the body of the try block: a value returned, or an exception raised
download_try(st, k, fault) ==
    IF fault = "raise" THEN [raised |-> TRUE, none |-> FALSE]
    ELSE LET artifact == IF fault = "no_inline_data" /\ Len(st[k]) > 0
                         THEN TextPart(<<>>)
                         ELSE load_artifact(st, k)
         IN  IF artifact.kind = "None" THEN [raised |-> FALSE, none |-> TRUE]
             ELSE IF artifact.kind # "inline_data" THEN [raised |-> TRUE, none |-> FALSE]
             ELSE [ raised |-> FALSE, none |-> FALSE,
                    data |-> b64encode(artifact.data), mime_type |-> artifact.mime_type ]

\* variant: no except clause
download_without_except(st, k, fault) == download_try(st, k, fault)

\* try: ... except Exception: return None
download_image_from_gcs(st, k, fault) ==
    LET r == download_try(st, k, fault)
    IN  IF r.raised THEN [raised |-> FALSE, none |-> TRUE] ELSE r

----------------------------------------------------------------------------
(* format_user_request_to_adk_content_and_store_artifacts *)

\* f"[IMAGE-ID {image_hash_id}]"
placeholder(hash) == <<"[", "IMAGE-", "ID", " ">> \o hash \o <<"]">>

RECURSIVE StoreFiles(_, _, _)
\* the for loop over request.files: the store and the parts after it
StoreFiles(st, scope, files) ==
    IF Len(files) = 0 THEN [store |-> st, parts |-> <<>>]
    ELSE LET r == store_uploaded_image_as_artifact(st, scope, files[1])
             rest == StoreFiles(r.store, scope, SubSeq(files, 2, Len(files)))
         IN  [ store |-> rest.store,
               parts |-> << InlinePart(files[1].mime_type, r.result[2]),
                            TextPart(placeholder(r.result[1])) >>
                         \o rest.parts ]

RECURSIVE StoreFilesReversed(_, _, _)
\* variant: the files are stored last to first
StoreFilesReversed(st, scope, files) ==
    IF Len(files) = 0 THEN [store |-> st, parts |-> <<>>]
    ELSE LET n == Len(files)
             r == store_uploaded_image_as_artifact(st, scope, files[n])
             rest == StoreFilesReversed(r.store, scope, SubSeq(files, 1, n - 1))
         IN  [ store |-> rest.store,
               parts |-> rest.parts
                         \o << InlinePart(files[n].mime_type, r.result[2]),
                               TextPart(placeholder(r.result[1])) >> ]

\* variant: the loop runs over the files in reverse
format_stores_in_reverse(st, scope, request) ==
    LET r == StoreFilesReversed(st, scope, request.files)
        t == IF request.text = <<>> THEN <<" ">> ELSE request.text
    IN  [ store |-> r.store,
          content |-> [role |-> "user", parts |-> Append(r.parts, TextPart(t))] ]

format_user_request_to_adk_content_and_store_artifacts(st, scope, request) ==
    LET r == StoreFiles(st, scope, request.files)
        t == IF request.text = <<>> THEN <<" ">> ELSE request.text
    IN  [ store |-> r.store,
          content |-> [role |-> "user", parts |-> Append(r.parts, TextPart(t))] ]

RECURSIVE NoteFiles(_, _, _)
NoteFiles(lg, scope, files) ==
    IF Len(files) = 0 THEN lg
    ELSE NoteFiles(
             NoteUpload(lg, <<scope, image_hash_id(b64decode(files[1].serialized_image))>>,
                        files[1].mime_type),
             scope, SubSeq(files, 2, Len(files)))

FileLists == UNION { [1..n -> ImageData] : n \in 0..MaxFiles }

----------------------------------------------------------------------------
(* Python str and re helpers, on sequences of characters *)

\* \s
IsSpace(c) == c \in {" ", "\n"}

RECURSIVE SkipSpace(_, _)
\* \s* from position i on: the first position not taken
SkipSpace(s, i) == IF i <= Len(s) /\ IsSpace(s[i]) THEN SkipSpace(s, i + 1) ELSE i

RECURSIVE SkipSpaceBack(_, _)
SkipSpaceBack(s, i) == IF i >= 1 /\ IsSpace(s[i]) THEN SkipSpaceBack(s, i - 1) ELSE i

\* str.strip()
strip(s) == SubSeq(s, SkipSpace(s, 1), SkipSpaceBack(s, Len(s)))

\* s[i:].startswith(old)
StartsWithAt(s, i, old) ==
    /\ i + Len(old) - 1 <= Len(s)
    /\ \A j \in 1..Len(old) : s[i + j - 1] = old[j]

RECURSIVE RemoveAllFrom(_, _, _)
RemoveAllFrom(s, old, i) ==
    IF i > Len(s) THEN <<>>
    ELSE IF StartsWithAt(s, i, old) THEN RemoveAllFrom(s, old, i + Len(old))
    ELSE <<s[i]>> \o RemoveAllFrom(s, old, i + 1)

\* s.replace(old, ""), old not empty: every occurrence goes, left to right
replace_with_empty(s, old) == RemoveAllFrom(s, old, 1)

----------------------------------------------------------------------------
(* extract_thinking_process *)

\* r"#\s*<word>" matched at position i: the position after the match, 0 when none
HeadingEnd(s, i, word) ==
    IF i <= Len(s) /\ s[i] = "#"
    THEN LET j == SkipSpace(s, i + 1)
         IN  IF j <= Len(s) /\ s[j] = word THEN j + 1 ELSE 0
    ELSE 0

RECURSIVE FirstHeading(_, _, _)
\* the first position >= i where r"#\s*<word>" matches, Len(s) + 1 when none
FirstHeading(s, i, word) ==
    IF i > Len(s) THEN Len(s) + 1
    ELSE IF HeadingEnd(s, i, word) > 0 THEN i
    ELSE FirstHeading(s, i + 1, word)

\* variant: [\s\S]* taken greedily, so the match always runs to the end of the text
search_section_to_end(s, word, until) ==
    LET start == FirstHeading(s, 1, word)
    IN  IF start > Len(s) THEN [found |-> FALSE]
        ELSE [found |-> TRUE, group0 |-> SubSeq(s, start, Len(s))]

\* re.search(r"#\s*<word>[\s\S]*?(?=#\s*<until>|\Z)", s): the matched text, or no match
search_section(s, word, until) ==
    LET start == FirstHeading(s, 1, word)
    IN  IF start > Len(s) THEN [found |-> FALSE]
        ELSE [ found |-> TRUE,
               group0 |-> SubSeq(s, start,
                                 FirstHeading(s, HeadingEnd(s, start, word), until) - 1) ]

\* ^ under re.MULTILINE
AtLineStart(s, i) == i = 1 \/ s[i - 1] = "\n"

RECURSIVE SubHeadingsFrom(_, _, _)
SubHeadingsFrom(s, word, i) ==
    IF i > Len(s) THEN <<>>
    ELSE IF AtLineStart(s, i) /\ HeadingEnd(s, i, word) > 0
    THEN SubHeadingsFrom(s, word, SkipSpace(s, HeadingEnd(s, i, word)))
    ELSE <<s[i]>> \o SubHeadingsFrom(s, word, i + 1)

\* re.sub(r"^#\s*<word>\s*", "", s, flags=re.MULTILINE)
sub_heading(s, word) == SubHeadingsFrom(s, word, 1)

\* variant: the returned text is stripped in every case
extract_thinking_always_strips(response_text) ==
    LET thinking_match == search_section(response_text, "THINKING PROCESS", "FINAL RESPONSE")
        sanitized_text ==
            IF thinking_match.found
            THEN replace_with_empty(response_text, thinking_match.group0)
            ELSE response_text
        final_response_match == search_section(sanitized_text, "FINAL RESPONSE", "ATTACHMENTS")
    IN  [ response |->
            IF final_response_match.found
            THEN strip(sub_heading(final_response_match.group0, "FINAL RESPONSE"))
            ELSE strip(sanitized_text),
          thinking |->
            IF thinking_match.found
            THEN strip(sub_heading(thinking_match.group0, "THINKING PROCESS"))
            ELSE <<>> ]

\* returns (sanitized_text, thinking_process)
extract_thinking_process(response_text) ==
    LET thinking_match == search_section(response_text, "THINKING PROCESS", "FINAL RESPONSE")
        thinking_process ==
            IF thinking_match.found
            THEN strip(sub_heading(thinking_match.group0, "THINKING PROCESS"))
            ELSE <<>>
        sanitized_text ==
            IF thinking_match.found
            THEN replace_with_empty(response_text, thinking_match.group0)
            ELSE response_text
        final_response_match == search_section(sanitized_text, "FINAL RESPONSE", "ATTACHMENTS")
    IN  [ response |->
            IF final_response_match.found
            THEN strip(sub_heading(final_response_match.group0, "FINAL RESPONSE"))
            ELSE sanitized_text,
          thinking |-> thinking_process ]

----------------------------------------------------------------------------
(* sanitize_image_id *)

RECURSIVE FindFrom(_, _, _)
\* the first position >= i where old starts, 0 when none
FindFrom(s, old, i) ==
    IF i + Len(old) - 1 > Len(s) THEN 0
    ELSE IF StartsWithAt(s, i, old) THEN i
    ELSE FindFrom(s, old, i + 1)

\* s.split(sep)[0]
BeforeFirst(s, sep) ==
    LET p == FindFrom(s, sep, 1)
    IN  IF p = 0 THEN s ELSE SubSeq(s, 1, p - 1)

\* the three backticks of a code fence, one character of the alphabet
Fence == "FENCE"

\* JSON values as json.loads builds them
JsonStr(v) == [t |-> "str", v |-> v]

JsonNum == [t |-> "int"]

JsonList(items) == [t |-> "list", v |-> items]

JsonDict(members) == [t |-> "dict", v |-> members]

Returned(v) == [exc |-> "none", v |-> v]

Raised(e) == [exc |-> e]

\* image_id is whatever the caller passes: a str, or another JSON value
sanitize_image_id(image_id) ==
    IF image_id.t # "str" THEN Raised("AttributeError")   \* no startswith on int, list, dict
    ELSE IF StartsWithAt(image_id.v, 1, <<"[", "IMAGE-">>)
    THEN LET p == FindFrom(image_id.v, <<"ID", " ">>, 1)
         IN  IF p = 0 THEN Raised("IndexError")            \* split("ID ")[1]
             ELSE LET after == SubSeq(image_id.v, p + 2, Len(image_id.v))
                      part == BeforeFirst(after, <<"ID", " ">>)
                  IN  Returned(strip(BeforeFirst(part, <<"]">>)))
    ELSE Returned(strip(image_id.v))

RECURSIVE SanitizeAll(_)
\* the loop / comprehension over the ids: the first exception ends it
SanitizeAll(items) ==
    IF Len(items) = 0 THEN Returned(<<>>)
    ELSE LET r == sanitize_image_id(items[1])
         IN  IF r.exc # "none" THEN r
             ELSE LET rest == SanitizeAll(Tail(items))
                  IN  IF rest.exc # "none" THEN rest ELSE Returned(<<r.v>> \o rest.v)

----------------------------------------------------------------------------
(* json.loads *)

JsonBad == [ok |-> FALSE]

JsonOk(val, next) == [ok |-> TRUE, val |-> val, next |-> next]

\* a string: from the quote at i to the next quote (the alphabet has no backslash);
\* a raw newline inside is refused
ParseString(s, i) ==
    LET e == FindFrom(s, <<"\"">>, i + 1)
    IN  IF e = 0 \/ \E m \in (i + 1)..(e - 1) : s[m] = "\n" THEN JsonBad
        ELSE JsonOk(JsonStr(SubSeq(s, i + 1, e - 1)), e + 1)

RECURSIVE SkipDigits(_, _)
SkipDigits(s, i) == IF i <= Len(s) /\ s[i] = "1" THEN SkipDigits(s, i + 1) ELSE i

RECURSIVE ParseValue(_, _)
RECURSIVE ParseMembers(_, _, _)
RECURSIVE ParseItems(_, _, _)

\* after a member or at the start: "key" : value, then "," or "}"
ParseMembers(s, i0, acc) ==
    LET i == SkipSpace(s, i0)
    IN  IF i > Len(s) \/ s[i] # "\"" THEN JsonBad
        ELSE LET key == ParseString(s, i)
             IN  IF ~key.ok THEN JsonBad
                 ELSE LET c == SkipSpace(s, key.next)
                      IN  IF c > Len(s) \/ s[c] # ":" THEN JsonBad
                          ELSE LET val == ParseValue(s, c + 1)
                               IN  IF ~val.ok THEN JsonBad
                                   ELSE LET n == SkipSpace(s, val.next)
                                            members == Append(acc, <<key.val.v, val.val>>)
                                        IN  IF n > Len(s) THEN JsonBad
                                            ELSE IF s[n] = "}" THEN JsonOk(JsonDict(members), n + 1)
                                            ELSE IF s[n] = "," THEN ParseMembers(s, n + 1, members)
                                            ELSE JsonBad

\* value, then "," or "]"
ParseItems(s, i0, acc) ==
    LET val == ParseValue(s, i0)
    IN  IF ~val.ok THEN JsonBad
        ELSE LET n == SkipSpace(s, val.next)
                 items == Append(acc, val.val)
             IN  IF n > Len(s) THEN JsonBad
                 ELSE IF s[n] = "]" THEN JsonOk(JsonList(items), n + 1)
                 ELSE IF s[n] = "," THEN ParseItems(s, n + 1, items)
                 ELSE JsonBad

ParseValue(s, i0) ==
    LET i == SkipSpace(s, i0)
    IN  IF i > Len(s) THEN JsonBad
        ELSE IF s[i] = "\"" THEN ParseString(s, i)
        ELSE IF s[i] = "1" THEN JsonOk(JsonNum, SkipDigits(s, i))
        ELSE IF s[i] = "{" THEN
            LET j == SkipSpace(s, i + 1)
            IN  IF j <= Len(s) /\ s[j] = "}" THEN JsonOk(JsonDict(<<>>), j + 1)
                ELSE ParseMembers(s, i + 1, <<>>)
        ELSE IF s[i] = "[" THEN
            LET j == SkipSpace(s, i + 1)
            IN  IF j <= Len(s) /\ s[j] = "]" THEN JsonOk(JsonList(<<>>), j + 1)
                ELSE ParseItems(s, i + 1, <<>>)
        ELSE JsonBad

\* json.loads(s): the value, or json.JSONDecodeError
json_loads(s) ==
    LET r == ParseValue(s, 1)
    IN  IF r.ok /\ SkipSpace(s, r.next) > Len(s) THEN r ELSE JsonBad

\* "attachments" in json_data
HasKey(d, key) == \E i \in 1..Len(d.v) : d.v[i][1] = key

\* json_data["attachments"]: the last member of that name
GetKey(d, key) ==
    LET last_i == CHOOSE i \in 1..Len(d.v) :
                      d.v[i][1] = key /\ \A j \in (i + 1)..Len(d.v) : d.v[j][1] # key
    IN  d.v[last_i][2]

----------------------------------------------------------------------------
(* extract_attachment_ids_and_sanitize_response *)

RECURSIVE FirstClosingBrace(_, _)
\* [^`]*?} then \s*```: the first "}" from i on that white space and a fence
\* follow, with no backtick before it; 0 when none
FirstClosingBrace(s, i) ==
    IF i > Len(s) \/ s[i] = Fence THEN 0
    ELSE IF s[i] = "}"
            /\ SkipSpace(s, i + 1) <= Len(s) /\ s[SkipSpace(s, i + 1)] = Fence
    THEN i
    ELSE FirstClosingBrace(s, i + 1)

\* r"```json\s*({[^`]*?})\s*```" matched at position i
JsonBlockAt(s, i) ==
    IF i + 1 <= Len(s) /\ s[i] = Fence /\ s[i + 1] = "json"
    THEN LET open == SkipSpace(s, i + 2)
         IN  IF open <= Len(s) /\ s[open] = "{"
             THEN LET close == FirstClosingBrace(s, open + 1)
                  IN  IF close = 0 THEN [found |-> FALSE]
                      ELSE [ found |-> TRUE,
                             group0 |-> SubSeq(s, i, SkipSpace(s, close + 1)),
                             group1 |-> SubSeq(s, open, close) ]
             ELSE [found |-> FALSE]
    ELSE [found |-> FALSE]

RECURSIVE SearchJsonBlock(_, _)
\* re.search(json_block_pattern, response_text, re.DOTALL)
SearchJsonBlock(s, i) ==
    IF i > Len(s) THEN [found |-> FALSE]
    ELSE IF JsonBlockAt(s, i).found THEN JsonBlockAt(s, i)
    ELSE SearchJsonBlock(s, i + 1)

RECURSIVE FindImageIds(_, _)
\* re.findall(r"\[IMAGE-ID\s+([^\]]+)\]", s) from position i on
FindImageIds(s, i) ==
    IF i > Len(s) THEN <<>>
    ELSE IF StartsWithAt(s, i, <<"[", "IMAGE-", "ID">>)
            /\ i + 3 <= Len(s) /\ IsSpace(s[i + 3])
            /\ FindFrom(s, <<"]">>, i + 4) > i + 4
    THEN LET close == FindFrom(s, <<"]">>, i + 4)
             first == SkipSpace(s, i + 3)
             \* \s+ gives back one character when it ran up to the "]"
             from == IF first = close THEN close - 1 ELSE first
         IN  <<JsonStr(SubSeq(s, from, close - 1))>> \o FindImageIds(s, close + 1)
    ELSE FindImageIds(s, i + 1)

\* [m.strip() for m in matches if m.strip()]
NonBlankStripped(matches) ==
    LET kept == SelectSeq(matches, LAMBDA m : strip(m.v) # <<>>)
    IN  [i \in 1..Len(kept) |-> JsonStr(strip(kept[i].v))]

\* returns (sanitized_text, all_attachments_hash_ids), or raises
extract_attachment_ids_and_sanitize_response(response_text) ==
    LET json_match == SearchJsonBlock(response_text, 1)
    IN  IF ~json_match.found
        THEN [exc |-> "none", text |-> strip(response_text), ids |-> <<>>]
        ELSE
            LET json_str == strip(json_match.group1)
                json_data == json_loads(json_str)
                removed == strip(replace_with_empty(response_text, json_match.group0))
            IN  IF json_data.ok
                THEN
                    LET attachments ==
                            IF json_data.val.t = "dict" /\ HasKey(json_data.val, <<"attachments">>)
                            THEN GetKey(json_data.val, <<"attachments">>)
                            ELSE JsonNum
                        ids == IF attachments.t = "list" THEN SanitizeAll(attachments.v)
                               ELSE Returned(<<>>)
                    IN  IF ids.exc # "none" THEN [exc |-> ids.exc]
                        ELSE [exc |-> "none", text |-> removed, ids |-> ids.v]
                ELSE
                    LET ids == SanitizeAll(NonBlankStripped(FindImageIds(json_str, 1)))
                    IN  IF ids.exc # "none" THEN [exc |-> ids.exc]
                        ELSE [exc |-> "none", text |-> removed, ids |-> ids.v]

----------------------------------------------------------------------------
(* Sequential calls against the artifact service *)

NoCall == [op |-> "none"]

IdleCallers == [p \in Callers |-> "idle"]

NoArgs == [p \in Callers |-> [op |-> "none"]]

NoObs == [p \in Callers |-> <<>>]

InitService ==
    /\ store = [k \in Keys |-> <<>>]
    /\ log = [k \in Keys |-> [first |-> "none", reup |-> FALSE]]
    /\ last = NoCall

Init ==
    /\ InitService
    /\ pc = IdleCallers
    /\ call = NoArgs
    /\ obs = NoObs
    /\ text = <<>>
    /\ out = NoCall

Store ==
    \E scope \in Scopes, image_data \in ImageData :
        LET r == store_uploaded_image_as_artifact(store, scope, image_data)
        IN  /\ store' = r.store
            /\ log' = NoteUpload(log, <<scope, r.result[1]>>, image_data.mime_type)
            /\ last' = [ op |-> "store", scope |-> scope, image_data |-> image_data,
                         saved |-> r.saved, result |-> r.result ]
            /\ UNCHANGED <<pc, call, obs, text, out>>

Download ==
    \E scope \in Scopes, image_hash \in HashIds, fault \in LoadFaults :
        /\ last' = [ op |-> "download", scope |-> scope, image_hash |-> image_hash,
                     fault |-> fault,
                     result |-> download_image_from_gcs(store, <<scope, image_hash>>, fault) ]
        /\ UNCHANGED <<store, log, pc, call, obs, text, out>>

StoredOnce == { <<>> } \cup { <<InlinePart(m, b)>> : m \in MimeTypes, b \in Images }

\* the stores that sequential uploads leave: per key no version, or one version
\* holding the image of that hash
StoresAfterUploads ==
    { st \in [Keys -> StoredOnce] :
          \A k \in Keys : st[k] # <<>> => image_hash_id(st[k][1].data) = k[2] }

InitFormat ==
    /\ store \in StoresAfterUploads
    /\ log = [ k \in Keys |->
                 IF store[k] = <<>> THEN [first |-> "none", reup |-> FALSE]
                 ELSE [first |-> store[k][1].mime_type, reup |-> FALSE] ]
    /\ last = NoCall
    /\ pc = IdleCallers
    /\ call = NoArgs
    /\ obs = NoObs
    /\ text = <<>>
    /\ out = NoCall

FormatRequest ==
    /\ last = NoCall
    /\ \E scope \in Scopes, files \in FileLists, t \in RequestTexts :
        LET request == [text |-> t, files |-> files]
            r == format_user_request_to_adk_content_and_store_artifacts(store, scope, request)
        IN  /\ store' = r.store
            /\ log' = NoteFiles(log, scope, files)
            /\ last' = [ op |-> "format", scope |-> scope, request |-> request,
                         before |-> store, content |-> r.content ]
            /\ UNCHANGED <<pc, call, obs, text, out>>

Next == Store \/ Download

Spec == Init /\ [][Next]_vars

NextFormat == FormatRequest

SpecFormat == InitFormat /\ [][NextFormat]_vars

----------------------------------------------------------------------------
(* Two callers inside store_uploaded_image_as_artifact at the same time: each
   call to the artifact service is one step, and the steps of the callers
   interleave.  Each caller makes one call. *)

\* lines 41-44: the arguments arrive, the bytes are decoded and hashed
ConcCall(p) ==
    /\ pc[p] = "idle"
    /\ \E scope \in Scopes, image_data \in ImageData :
        LET image_byte == b64decode(image_data.serialized_image)
            hash == image_hash_id(image_byte)
        IN  /\ call' = [call EXCEPT ![p] = [ op |-> "store", scope |-> scope,
                                             image_data |-> image_data,
                                             image_byte |-> image_byte,
                                             key |-> <<scope, hash>>, saved |-> FALSE ]]
            /\ log' = NoteUpload(log, <<scope, hash>>, image_data.mime_type)
    /\ pc' = [pc EXCEPT ![p] = "hashed"]
    /\ UNCHANGED <<store, last, obs, text, out>>

\* lines 46-51: list_versions
ConcList(p) ==
    /\ pc[p] = "hashed"
    /\ obs' = [obs EXCEPT ![p] = list_versions(store, call[p].key)]
    /\ pc' = [pc EXCEPT ![p] = "listed"]
    /\ UNCHANGED <<store, log, last, call, text, out>>

\* variant: the existence check and the save are one step (a lock around both)
ConcFinishLocked(p) ==
    /\ pc[p] = "listed"
    /\ IF Len(list_versions(store, call[p].key)) > 0
       THEN UNCHANGED <<store, call>>
       ELSE /\ store' = save_artifact(store, call[p].key,
                             InlinePart(call[p].image_data.mime_type, call[p].image_byte))
            /\ call' = [call EXCEPT ![p].saved = TRUE]
    /\ pc' = [pc EXCEPT ![p] = "done"]
    /\ UNCHANGED <<log, last, obs, text, out>>

\* lines 52-67: return early on the versions seen, else save_artifact and return
ConcFinish(p) ==
    /\ pc[p] = "listed"
    /\ IF Len(obs[p]) > 0
       THEN UNCHANGED <<store, call>>
       ELSE /\ store' = save_artifact(store, call[p].key,
                             InlinePart(call[p].image_data.mime_type, call[p].image_byte))
            /\ call' = [call EXCEPT ![p].saved = TRUE]
    /\ pc' = [pc EXCEPT ![p] = "done"]
    /\ UNCHANGED <<log, last, obs, text, out>>

NextConc == \E p \in Callers : ConcCall(p) \/ ConcList(p) \/ ConcFinish(p)

SpecConc == Init /\ [][NextConc]_vars

----------------------------------------------------------------------------
(* Properties of the artifact cache *)

BytesOf(image_data) == b64decode(image_data.serialized_image)

KeyOf(scope, image_data) == <<scope, image_hash_id(BytesOf(image_data))>>

\* C1: in sequential use no key ever holds more than one version, and a store
\* call that finds a version under its key saves nothing and still returns
\* (hash id, bytes).
C1_SequentialUploadsStoreOnce ==
    [][ /\ \A k \in Keys : Len(store'[k]) <= 1
        /\ last'.op = "store" =>
              LET k == KeyOf(last'.scope, last'.image_data)
              IN  /\ last'.result = <<k[2], BytesOf(last'.image_data)>>
                  /\ Len(store[k]) > 0 => store' = store /\ ~last'.saved ]_vars

\* a re-upload of bytes already stored under the key has just returned
C1_Witness ==
    /\ last.op = "store"
    /\ ~last.saved
    /\ Len(store[KeyOf(last.scope, last.image_data)]) = 1

\* C4: download_image_from_gcs never raises; it returns None when load_artifact
\* raises, returns nothing or returns an artifact without inline data; and it
\* leaves the stored artifacts as they were.
C4_DownloadNeverRaises ==
    [][ last'.op = "download" =>
          LET k == <<last'.scope, last'.image_hash>>
          IN  /\ store' = store
              /\ ~last'.result.raised
              /\ (last'.fault # "none" \/ Len(store[k]) = 0) => last'.result.none ]_vars

\* a download whose artifact came back without inline data returned None
C4_Witness ==
    /\ last.op = "download"
    /\ last.fault = "no_inline_data"
    /\ Len(store[<<last.scope, last.image_hash>>]) > 0
    /\ last.result.none

\* C6: a store call saves exactly when its own scope holds no version of the
\* hash, whatever other scopes hold, and changes no other key.
C6_DedupIsPerScope ==
    [][ last'.op = "store" =>
          LET k == KeyOf(last'.scope, last'.image_data)
              artifact == InlinePart(last'.image_data.mime_type, BytesOf(last'.image_data))
          IN  /\ store'[k] = IF Len(store[k]) = 0 THEN <<artifact>> ELSE store[k]
              /\ last'.saved <=> Len(store[k]) = 0
              /\ \A k2 \in Keys \ {k} : store'[k2] = store[k2] ]_vars

\* a store call has just saved bytes that another scope already held
C6_Witness ==
    /\ last.op = "store"
    /\ last.saved
    /\ \E s \in Scopes \ {last.scope} :
           Len(store[<<s, last.result[1]>>]) > 0

ImageOfHash(h) == CHOOSE b \in Images : image_hash_id(b) = h

\* C10: once bytes B were stored in a scope, a download of their hash id in
\* that scope (the service answering) returns base64(B) and the MIME type of
\* the first upload of B there, whatever MIME types later re-uploads gave.
C10_StoreDownloadRoundTrip ==
    (last.op = "download" /\ last.fault = "none"
        /\ log[<<last.scope, last.image_hash>>].first # "none")
    => last.result = [ raised |-> FALSE, none |-> FALSE,
                       data |-> b64encode(ImageOfHash(last.image_hash)),
                       mime_type |-> log[<<last.scope, last.image_hash>>].first ]

\* a download after a re-upload that gave another MIME type
C10_Witness ==
    /\ last.op = "download"
    /\ last.fault = "none"
    /\ log[<<last.scope, last.image_hash>>].reup
    /\ ~last.result.none

FirstIndexOf(files, scope, k) ==
    CHOOSE i \in 1..Len(files) :
        /\ KeyOf(scope, files[i]) = k
        /\ \A j \in 1..(i - 1) : KeyOf(scope, files[j]) # k

\* C9: the Content of a request with n files has role user and 2n+1 parts (per
\* file its inline data, then "[IMAGE-ID <hash>]"; last the request text, a
\* single space when that is empty), and the files were stored in request order.
C9_FormatRequestParts ==
    last.op = "format" =>
        LET files == last.request.files
            n == Len(files)
            parts == last.content.parts
        IN  /\ last.content.role = "user"
            /\ Len(parts) = 2 * n + 1
            /\ \A i \in 1..n :
                  /\ parts[2 * i - 1] = InlinePart(files[i].mime_type, BytesOf(files[i]))
                  /\ parts[2 * i] =
                        TextPart(<<"[", "IMAGE-", "ID", " ">>
                                 \o image_hash_id(BytesOf(files[i])) \o <<"]">>)
            /\ parts[2 * n + 1] =
                  TextPart(IF last.request.text = <<>> THEN <<" ">> ELSE last.request.text)
            /\ \A k \in Keys :
                  store[k] =
                    IF Len(last.before[k]) > 0 THEN last.before[k]
                    ELSE IF \E i \in 1..n : KeyOf(last.scope, files[i]) = k
                    THEN LET f == files[FirstIndexOf(files, last.scope, k)]
                         IN  <<InlinePart(f.mime_type, BytesOf(f))>>
                    ELSE <<>>

\* a request without text whose two files hold the same new bytes under two MIME types
C9_Witness ==
    /\ last.op = "format"
    /\ last.request.text = <<>>
    /\ Len(last.request.files) = 2
    /\ BytesOf(last.request.files[1]) = BytesOf(last.request.files[2])
    /\ last.request.files[1].mime_type # last.request.files[2].mime_type
    /\ Len(last.before[KeyOf(last.scope, last.request.files[1])]) = 0

\* C5: when two callers upload the same bytes in the same scope and both saw no
\* version in list_versions, both call save_artifact and the key ends up with
\* more than one version.
C5_ConcurrentUploadsDuplicate ==
    \A p \in Callers : \A q \in Callers \ {p} :
        (pc[p] = "done" /\ pc[q] = "done" /\ call[p].key = call[q].key
            /\ Len(obs[p]) = 0 /\ Len(obs[q]) = 0)
        => /\ call[p].saved /\ call[q].saved
           /\ Len(store[call[p].key]) > 1

\* both callers returned after seeing no version under the same key
C5_Witness ==
    /\ pc[1] = "done" /\ pc[2] = "done"
    /\ call[1].key = call[2].key
    /\ Len(obs[1]) = 0 /\ Len(obs[2]) = 0
    /\ Len(store[call[1].key]) > 1

----------------------------------------------------------------------------
(* extract_thinking_process applied to a response text *)

\* longest response text handed to extract_thinking_process
MaxTextLen == 6

\* "#", blank, newline, and the three heading words; a word that no "#"
\* introduces is ordinary text
ThinkingChars == { "#", " ", "\n", "THINKING PROCESS", "FINAL RESPONSE", "ATTACHMENTS" }

InitThinking ==
    /\ store = [k \in Keys |-> <<>>]
    /\ log = [k \in Keys |-> [first |-> "none", reup |-> FALSE]]
    /\ last = NoCall
    /\ pc = IdleCallers
    /\ call = NoArgs
    /\ obs = NoObs
    /\ text \in UNION { [1..n -> ThinkingChars] : n \in 0..MaxTextLen }
    /\ out = NoCall

ExtractThinking ==
    /\ out = NoCall
    /\ out' = [op |-> "extract_thinking_process", ret |-> extract_thinking_process(text)]
    /\ UNCHANGED <<store, log, last, pc, call, obs, text>>

NextThinking == ExtractThinking

SpecThinking == InitThinking /\ [][NextThinking]_vars

----------------------------------------------------------------------------
(* Properties of extract_thinking_process *)

\* the text holds "#", optional white space, then the word
ContainsHeading(s, word) ==
    \E i \in 1..Len(s) : \E j \in (i + 1)..Len(s) :
        /\ s[i] = "#"
        /\ s[j] = word
        /\ \A m \in (i + 1)..(j - 1) : IsSpace(s[m])

HeadingStarts(s, word) ==
    { i \in 1..Len(s) : s[i] = "#" /\ \E j \in (i + 1)..Len(s) :
                            s[j] = word /\ \A m \in (i + 1)..(j - 1) : IsSpace(s[m]) }

\* the position of the word of the heading that starts at i
HeadingWord(s, i) == CHOOSE j \in (i + 1)..Len(s) :
                        ~IsSpace(s[j]) /\ \A m \in (i + 1)..(j - 1) : IsSpace(s[m])

Trimmed(s) ==
    LET keep == { i \in 1..Len(s) : ~IsSpace(s[i]) }
    IN  IF keep = {} THEN <<>>
        ELSE SubSeq(s, CHOOSE i \in keep : \A j \in keep : i <= j,
                       CHOOSE i \in keep : \A j \in keep : i >= j)

Thought == out.op = "extract_thinking_process"

\* C3 as stated: without a THINKING PROCESS heading the thinking is empty and
\* the response is the input text unchanged.
C3_AsStated ==
    (Thought /\ ~ContainsHeading(text, "THINKING PROCESS"))
    => out.ret.thinking = <<>> /\ out.ret.response = text

\* C3: without a THINKING PROCESS heading the thinking is empty, and the
\* response is the input text unchanged exactly when the text holds no FINAL
\* RESPONSE heading either (with one, only the FINAL RESPONSE section is kept).
C3_NoThinkingHeading ==
    (Thought /\ ~ContainsHeading(text, "THINKING PROCESS"))
    => /\ out.ret.thinking = <<>>
       /\ out.ret.response = text <=> ~ContainsHeading(text, "FINAL RESPONSE")

\* a text with white space at both ends, the words but no heading, came back as it was
C3_Witness ==
    /\ Thought
    /\ ~ContainsHeading(text, "THINKING PROCESS")
    /\ ~ContainsHeading(text, "FINAL RESPONSE")
    /\ Len(text) >= 4
    /\ text[1] = " " /\ text[Len(text)] = "\n"
    /\ \E i \in 1..Len(text) : text[i] = "THINKING PROCESS"
    /\ \E i \in 1..Len(text) : text[i] = "#"
    /\ out.ret.response = text

\* the documented shape: one THINKING PROCESS heading, then one FINAL RESPONSE heading
DocumentedShape(s) ==
    /\ Cardinality(HeadingStarts(s, "THINKING PROCESS")) = 1
    /\ Cardinality(HeadingStarts(s, "FINAL RESPONSE")) = 1
    /\ \A i \in HeadingStarts(s, "THINKING PROCESS") :
         \A j \in HeadingStarts(s, "FINAL RESPONSE") : i < j

\* C7: for a text of the documented shape the thinking is the trimmed text
\* between the two headings, the response is the trimmed text after the FINAL
\* RESPONSE heading up to an ATTACHMENTS heading or the end, and the response
\* holds neither heading.
C7_SectionsOfDocumentedShape ==
    (Thought /\ DocumentedShape(text)) =>
        LET t == CHOOSE i \in HeadingStarts(text, "THINKING PROCESS") : TRUE
            f == CHOOSE j \in HeadingStarts(text, "FINAL RESPONSE") : TRUE
            after == { a \in HeadingStarts(text, "ATTACHMENTS") : a > f }
            stop == IF after = {} THEN Len(text) + 1
                    ELSE CHOOSE a \in after : \A b \in after : a <= b
        IN  /\ out.ret.thinking = Trimmed(SubSeq(text, HeadingWord(text, t) + 1, f - 1))
            /\ out.ret.response = Trimmed(SubSeq(text, HeadingWord(text, f) + 1, stop - 1))
            /\ ~ContainsHeading(out.ret.response, "THINKING PROCESS")
            /\ ~ContainsHeading(out.ret.response, "FINAL RESPONSE")

\* a text of the documented shape with text in both sections was split
C7_Witness ==
    /\ Thought
    /\ DocumentedShape(text)
    /\ out.ret.thinking # <<>>
    /\ out.ret.response # <<>>

----------------------------------------------------------------------------
(* extract_attachment_ids_and_sanitize_response applied to a response text *)

\* number of entries written into the attachments list at most
MaxIds == 2

Q == <<"\"">>

\* text before and after the fenced block
Around == { <<>>, <<" ">>, <<"a", " ">>, <<"\n", "a">> }

Openings == { <<Fence, "json">>, <<Fence, "json", "\n">>, <<Fence>>, <<>> }

Closings == { <<Fence>>, <<"\n", Fence>>, <<>> }

\* how the body starts, up to the entries
Heads == { <<"{", "\"", "attachments", "\"", ":", " ", "[">>,
           <<"{", "\"", "a", "\"", ":", "[">>,
           <<"{", "\"", "attachments", "\"", ":">>,
           <<"{">> }

\* how the body ends
Tails == { <<"]", "}">>, <<"}">>, <<"]", ",", "}">> }

\* one entry: ids as JSON strings, a number, placeholders inside and outside quotes
Entries == { Q \o <<"a">> \o Q,
             Q \o <<" ", "a", "1", " ">> \o Q,
             <<"1">>,
             Q \o <<"[", "IMAGE-", "ID", " ", "a", "]">> \o Q,
             Q \o <<"[", "IMAGE-", "a", "]">> \o Q,
             <<"[", "IMAGE-", "ID", " ", "1", "]">>,
             <<"[", "IMAGE-", "ID", " ", " ", "]">>,
             <<"[", "IMAGE-", "ID", " ", "[", "IMAGE-", "a", "]">> }

RECURSIVE JoinEntries(_)
JoinEntries(es) ==
    IF Len(es) = 0 THEN <<>>
    ELSE IF Len(es) = 1 THEN es[1]
    ELSE es[1] \o <<",", " ">> \o JoinEntries(Tail(es))

EntryLists == UNION { [1..n -> Entries] : n \in 0..MaxIds }

AttachmentTexts ==
    { pre \o open \o head \o JoinEntries(es) \o tail \o close \o post :
        pre \in Around, open \in Openings, head \in Heads, es \in EntryLists,
        tail \in Tails, close \in Closings, post \in Around }

InitAttachments ==
    /\ store = [k \in Keys |-> <<>>]
    /\ log = [k \in Keys |-> [first |-> "none", reup |-> FALSE]]
    /\ last = NoCall
    /\ pc = IdleCallers
    /\ call = NoArgs
    /\ obs = NoObs
    /\ text \in AttachmentTexts
    /\ out = NoCall

ExtractAttachments ==
    /\ out = NoCall
    /\ out' = [ op |-> "extract_attachment_ids_and_sanitize_response",
                ret |-> extract_attachment_ids_and_sanitize_response(text) ]
    /\ UNCHANGED <<store, log, last, pc, call, obs, text>>

NextAttachments == ExtractAttachments

SpecAttachments == InitAttachments /\ [][NextAttachments]_vars

----------------------------------------------------------------------------
(* Properties of extract_attachment_ids_and_sanitize_response *)

Extracted == out.op = "extract_attachment_ids_and_sanitize_response"

\* C2 as stated: when the fenced block's body is not valid JSON the call does
\* not raise; it returns the text without the block and the ids that the
\* [IMAGE-ID <id>] scan of the body finds, in order.
C2_AsStated ==
    LET json_match == SearchJsonBlock(text, 1)
    IN  (Extracted /\ json_match.found /\ ~json_loads(json_match.group1).ok) =>
            LET found == NonBlankStripped(FindImageIds(json_match.group1, 1))
            IN  /\ out.ret.exc = "none"
                /\ out.ret.text = strip(replace_with_empty(text, json_match.group0))
                /\ out.ret.ids = [i \in 1..Len(found) |-> found[i].v]

\* C8 as stated: when the block parses to an object with an "attachments" list
\* the call returns the sanitized ids of the list in order and a text without
\* the block; without a block it returns no ids and the text it was given
\* (compared here up to the white space around it, which strip() takes off).
C8_AsStated ==
    LET json_match == SearchJsonBlock(text, 1)
    IN  /\ (Extracted /\ ~json_match.found) =>
              /\ out.ret.exc = "none"
              /\ out.ret.ids = <<>>
              /\ out.ret.text = strip(text)
        /\ (Extracted /\ json_match.found /\ json_loads(json_match.group1).ok) =>
              LET json_data == json_loads(json_match.group1).val
              IN  (json_data.t = "dict" /\ HasKey(json_data, <<"attachments">>)
                      /\ GetKey(json_data, <<"attachments">>).t = "list") =>
                      LET attachments == GetKey(json_data, <<"attachments">>).v
                      IN  /\ out.ret.exc = "none"
                          /\ Len(out.ret.ids) = Len(attachments)
                          /\ \A i \in 1..Len(attachments) :
                                sanitize_image_id(attachments[i]) = Returned(out.ret.ids[i])
                          /\ FindFrom(out.ret.text, json_match.group0, 1) = 0

====
